---- MODULE Spec2Model ----
(***************************************************************************)
(* dencho-cli (rust-server/src/main.rs): a loopback HTTP daemon that runs  *)
(* either as a Windows service or in the foreground, checks and repairs    *)
(* its environment before it listens, and runs a node script for every     *)
(* POST /api/download.                                                     *)
(*                                                                         *)
(* The module has two parts.  The pure part gives get_application_root,    *)
(* the credential/env mapping and download_invoice as operators.  The      *)
(* state machine gives one process run after the other (main, the service  *)
(* thread, the control handler thread, the connection tasks) over a file   *)
(* system that outlives the process.                                       *)
(***************************************************************************)
EXTENDS Integers, Sequences, FiniteSets, TLC

\* ------------------------------------------------------------------ bounds
\* calls of check_and_setup_environment in a row (SpecBoot)
MaxRuns == 2
\* connections accepted by one process run
MaxRequests == 2
\* Stop notifications queued in the channel at once
MaxStops == 2
\* bytes in the child's stderr
MaxText == 2

\* ------------------------------------------------------- values and text
\* Option<String>
None == [some |-> FALSE, val |-> <<>>]
Some(s) == [some |-> TRUE, val |-> s]

\* Bytes a child can write: a blank, a letter, a byte that is not UTF-8.
Bytes == {"sp", "x", "bad"}

RECURSIVE SeqsUpTo(_, _)
SeqsUpTo(S, n) ==
  IF n = 0 THEN {<<>>}
  ELSE LET P == SeqsUpTo(S, n - 1)
       IN P \cup {Append(p, b) : p \in {q \in P : Len(q) = n - 1}, b \in S}

\* String::from_utf8_lossy: an invalid byte becomes U+FFFD.
from_utf8_lossy(bytes) ==
  [i \in 1..Len(bytes) |-> IF bytes[i] = "bad" THEN "U+FFFD" ELSE bytes[i]]

RECURSIVE trim_start(_)
trim_start(s) ==
  IF s # <<>> /\ Head(s) = "sp" THEN trim_start(Tail(s)) ELSE s

RECURSIVE trim_end(_)
trim_end(s) ==
  IF s # <<>> /\ s[Len(s)] = "sp" THEN trim_end(SubSeq(s, 1, Len(s) - 1)) ELSE s

\* str::trim
trim(s) == trim_end(trim_start(s))

\* format!("<text>{}", arg): the fixed text and what is spliced into it.
Msg(text, arg) == [text |-> text, arg |-> arg]

\* -------------------------------------------------------------- the world
\* What the process finds around it.  exe: current_exe() fails, or the
\* executable lies in a directory named bin, or elsewhere.  pkg: package.json
\* lies beside that bin.  cwd: current_dir() fails or not.  script: the file
\* <root>/dist/download-supabase-invoice.js exists.  appdata, home: the
\* variables APPDATA and HOME are set.
Exes == {"err", "bin", "other"}
Cwds == {"err", "ok"}
Worlds == [exe : Exes, pkg : BOOLEAN, cwd : Cwds, script : BOOLEAN,
           appdata : BOOLEAN, home : BOOLEAN]

get_application_root(w) ==
  IF w.exe = "err" THEN [ok |-> FALSE, path |-> <<>>, err |-> "current_exe failed"]
  ELSE IF w.exe = "bin" /\ w.pkg THEN [ok |-> TRUE, path |-> <<"app">>, err |-> ""]
  ELSE IF w.cwd = "err" THEN [ok |-> FALSE, path |-> <<>>, err |-> "current_dir failed"]
  ELSE [ok |-> TRUE, path |-> <<"cwd">>, err |-> ""]

\* std::env::var(name): Ok(value) when the variable is set.
env_var(w, name) ==
  IF name = "APPDATA" THEN (IF w.appdata THEN Some(<<"%APPDATA%">>) ELSE None)
  ELSE IF name = "HOME" THEN (IF w.home THEN Some(<<"$HOME">>) ELSE None)
  ELSE None

unwrap_or(opt, dflt) == IF opt.some THEN opt.val ELSE dflt

\* the browser cache path of download_invoice
download_browsers_path(w) ==
  unwrap_or(env_var(w, "APPDATA"), unwrap_or(env_var(w, "HOME"), <<".">>))
    \o <<"dencho-cli", "browsers">>

\* the browser cache path of check_and_setup_environment
check_browsers_path(w) ==
  unwrap_or(env_var(w, "APPDATA"), <<".">>) \o <<"dencho-cli", "browsers">>

\* ------------------------------------------------------- download_invoice
\* DownloadRequest: both fields Option<String>
Names == {<<>>, <<"u">>}
Payloads == [github_username : {None} \cup {Some(s) : s \in Names},
             github_password : {None} \cup {Some(s) : s \in Names}]

\* What cmd.output() gives: the spawn fails, or the child runs and exits.
Stdouts == {<<>>, <<"x">>}
Stderrs == SeqsUpTo(Bytes, MaxText)
ChildOutcomes ==
  {[kind |-> "spawn_error", code |-> 0, stdout |-> <<>>, stderr |-> <<>>]}
  \cup [kind : {"exit"}, code : {0, 1}, stdout : Stdouts, stderr : Stderrs]

\* Mutant of credential_env: the is_empty test is left out.
credential_env_unchecked(name, field) ==
  IF field.some THEN {<<name, field.val>>} ELSE {}

\* cmd.env(name, value) for a credential: set only for Some(non-empty).
credential_env(name, field) ==
  IF field.some /\ field.val # <<>> THEN {<<name, field.val>>} ELSE {}

NoCmd == [program |-> "", args |-> <<>>, cwd |-> <<>>, env |-> {}]

\* The Command download_invoice builds once the script was found.
download_command(payload, w, root, script_path) ==
  [program |-> "node",
   args |-> <<script_path>>,
   cwd |-> root.path,
   env |-> {<<"PLAYWRIGHT_BROWSERS_PATH", download_browsers_path(w)>>}
           \cup credential_env("GITHUB_USERNAME", payload.github_username)
           \cup credential_env("GITHUB_PASSWORD", payload.github_password)]

Response(code, status, message) ==
  [code |-> code, status |-> status, message |-> message]

SuccessMessage == Msg("Supabase invoice download completed", <<>>)

\* Mutant of child_result: stderr goes into the message untrimmed.
child_result_untrimmed(child) ==
  LET stdout == from_utf8_lossy(child.stdout)
      stderr == from_utf8_lossy(child.stderr)
  IN IF child.code = 0
     THEN [resp |-> Response(200, "success", SuccessMessage),
           logs |-> <<Msg("download success", <<>>)>>]
     ELSE [resp |-> Response(500, "error", Msg("download error: ", stderr)),
           logs |-> <<Msg("download failed: ", stdout \o <<"sp">> \o stderr)>>]

\* Mutant of child_result: a successful download is not logged.
child_result_silent(child) ==
  LET stdout == from_utf8_lossy(child.stdout)
      stderr == from_utf8_lossy(child.stderr)
  IN IF child.code = 0
     THEN [resp |-> Response(200, "success", SuccessMessage),
           logs |-> <<>>]
     ELSE [resp |-> Response(500, "error", Msg("download error: ", trim(stderr))),
           logs |-> <<Msg("download failed: ", stdout \o <<"sp">> \o stderr)>>]

\* The answer for a child that ran: by its exit status alone.
child_result(child) ==
  LET stdout == from_utf8_lossy(child.stdout)
      stderr == from_utf8_lossy(child.stderr)
  IN IF child.code = 0
     THEN [resp |-> Response(200, "success", SuccessMessage),
           logs |-> <<Msg("download success", <<>>)>>]
     ELSE [resp |-> Response(500, "error", Msg("download error: ", trim(stderr))),
           logs |-> <<Msg("download failed: ", stdout \o <<"sp">> \o stderr)>>]

\* Mutant of download_invoice: the script_path.exists() test is left out.
download_invoice_unchecked(payload, w, child) ==
  LET root == get_application_root(w)
      script_path == root.path \o <<"dist", "download-supabase-invoice.js">>
      received == <<Msg("download request received", <<>>)>>
  IN IF ~root.ok
     THEN [resp |-> Response(500, "error", Msg("environment error: ", <<root.err>>)),
           logs |-> received \o <<Msg("application root error: ", <<root.err>>)>>,
           spawnCalls |-> 0, cmd |-> NoCmd, spawned |-> FALSE]
     ELSE IF child.kind = "spawn_error"
     THEN [resp |-> Response(500, "error", Msg("Node.js run error: ", <<"io error">>)),
           logs |-> received \o <<Msg("Node.js run error: ", <<"io error">>)>>,
           spawnCalls |-> 1, cmd |-> download_command(payload, w, root, script_path),
           spawned |-> FALSE]
     ELSE [resp |-> child_result(child).resp,
           logs |-> received \o child_result(child).logs,
           spawnCalls |-> 1, cmd |-> download_command(payload, w, root, script_path),
           spawned |-> TRUE]

\* download_invoice as a function of the request, the world and what the
\* child does if it is run: the response, the log lines, the number of
\* cmd.output() calls and the command that was run.
download_invoice(payload, w, child) ==
  LET root == get_application_root(w)
      script_path == root.path \o <<"dist", "download-supabase-invoice.js">>
      received == <<Msg("download request received", <<>>)>>
  IN IF ~root.ok
     THEN [resp |-> Response(500, "error", Msg("environment error: ", <<root.err>>)),
           logs |-> received \o <<Msg("application root error: ", <<root.err>>)>>,
           spawnCalls |-> 0, cmd |-> NoCmd, spawned |-> FALSE]
     ELSE IF ~w.script
     THEN [resp |-> Response(500, "error", Msg("script file not found: ", script_path)),
           logs |-> received \o <<Msg("script not found: ", script_path)>>,
           spawnCalls |-> 0, cmd |-> NoCmd, spawned |-> FALSE]
     ELSE IF child.kind = "spawn_error"
     THEN [resp |-> Response(500, "error", Msg("Node.js run error: ", <<"io error">>)),
           logs |-> received \o <<Msg("Node.js run error: ", <<"io error">>)>>,
           spawnCalls |-> 1, cmd |-> download_command(payload, w, root, script_path),
           spawned |-> FALSE]
     ELSE [resp |-> child_result(child).resp,
           logs |-> received \o child_result(child).logs,
           spawnCalls |-> 1, cmd |-> download_command(payload, w, root, script_path),
           spawned |-> TRUE]

\* health_check
health_check == [code |-> 200, body |-> [status |-> "ok"]]


\* ------------------------------------------------------------------ state
VARIABLES
  world,        \* what the process finds around it (see Worlds)
  fs,           \* node: the interpreter; node_modules; the browser cache
  run,          \* number of the current check_and_setup_environment call
  mode,         \* what main dispatched to
  pc,           \* where the main (or service) thread stands
  exitCode,     \* exit code of an exited process
  osReports,    \* ServiceState values reported to the OS, in order
  chan,         \* notifications queued in the mpsc channel
  rxAlive,      \* shutdown_rx not yet dropped
  handler,      \* the control handler: unregistered, registered, panicking
  lastControl,  \* the control delivered last
  lastAck,      \* what the handler returned last
  listener,     \* the TcpListener: unbound, accepting, closed
  pending,      \* the connection task accepted and not yet run
  nRequests,    \* requests sent in this run
  bootResult,   \* result of check_and_setup_environment in this run
  bootSpawns,   \* the Command calls it made, with what became of each
  prevBoot,     \* bootResult of the call before this one
  log,          \* lines this run appended to service.log
  last,         \* the last /api/download call: payload, child, outcome
  lastHealth,   \* the last answer to GET /health
  scCalls,      \* the sc commands install/uninstall issued
  stopServing,  \* a Stop control was delivered while the serve loop ran
  stopEarly,    \* a Stop control was delivered before the serve loop ran
  statusExit    \* exit_code of the ServiceStatus reported last

vars == <<world, fs, run, mode, pc, exitCode, osReports, chan, rxAlive,
          handler, lastControl, lastAck, listener, pending, nRequests,
          bootResult, bootSpawns, prevBoot, log, last, lastHealth, scCalls,
          stopServing, stopEarly, statusExit>>

envVars == <<world, run, prevBoot>>
svcVars == <<osReports, chan, rxAlive, handler, lastControl, lastAck,
            stopServing, stopEarly, statusExit>>
httpVars == <<listener, pending, nRequests, last, lastHealth>>
bootVars == <<bootResult, bootSpawns, fs>>

\* the interpreter: runs, exits non-zero, or cannot be spawned
NodeStates == {"ok", "fail", "spawn_error"}
BrowserDirs == {"absent", "empty", "full"}
FileSystems == [node : NodeStates, node_modules : BOOLEAN, browsers : BrowserDirs]

\* what a spawned installer does
CmdOutcomes == {"ok", "fail", "spawn_error"}

NoOut == [resp |-> Response(0, "none", Msg("", <<>>)), logs |-> <<>>,
          spawnCalls |-> 0, cmd |-> NoCmd, spawned |-> FALSE]
NoChild == [kind |-> "none", code |-> 0, stdout |-> <<>>, stderr |-> <<>>]
NoCall == [payload |-> [github_username |-> None, github_password |-> None],
           child |-> NoChild, out |-> NoOut]
NoAnswer == [code |-> 0, body |-> [status |-> "none"]]
Refused == [code |-> 0, body |-> [status |-> "refused"]]

\* log_to_file: one more line (the timestamp is left out)
log_to_file(l, message) == Append(l, message)

\* A process no longer runs its program: it exited, panicked on its main or
\* service thread, was aborted by a panic in the control handler, was
\* interrupted.
Ended == {"exited", "panicked", "aborted", "killed"}

ProcessStart ==
  /\ mode = "none" /\ pc = "main" /\ exitCode = -1
  /\ osReports = <<>> /\ chan = 0 /\ rxAlive = FALSE
  /\ handler = "unregistered" /\ lastControl = "none" /\ lastAck = "none"
  /\ listener = "unbound" /\ pending = "none" /\ nRequests = 0
  /\ bootResult = "none" /\ bootSpawns = <<>>
  /\ log = <<>> /\ lastHealth = NoAnswer /\ scCalls = <<>>
  /\ stopServing = FALSE /\ stopEarly = FALSE /\ statusExit = -1

\* The worlds the state machine is started in: the installed layout, the
\* development layout and an unresolvable executable path, each with and
\* without the script, on a host that sets APPDATA.  get_application_root
\* and the two path derivations are checked over all of Worlds in
\* SpecDownload.
StartWorlds ==
  {w \in Worlds : /\ w.pkg = (w.exe = "bin")
                  /\ w.cwd = "ok"
                  /\ w.appdata /\ ~w.home}

Init ==
  /\ world \in StartWorlds
  /\ fs \in FileSystems
  /\ run = 1
  /\ prevBoot = "none"
  /\ last = NoCall
  /\ ProcessStart

\* ------------------------------------------------------------------- main
\* args[1], or none
Args == {"install", "uninstall", "run", "other", "none"}

\* main: install, uninstall and run are dispatched by name; anything else
\* hands the process to the service dispatcher, which calls service_main
\* when the OS started the process as a service and fails otherwise.
main ==
  /\ pc = "main"
  /\ \E arg \in Args :
       \/ /\ arg = "install"
          /\ mode' = "install" /\ pc' = "install_service"
          /\ UNCHANGED exitCode
       \/ /\ arg = "uninstall"
          /\ mode' = "uninstall" /\ pc' = "uninstall_service"
          /\ UNCHANGED exitCode
       \/ /\ arg = "run"
          /\ mode' = "console" /\ pc' = "check_root"
          /\ UNCHANGED exitCode
       \/ /\ arg \in {"other", "none"}
          /\ \E started \in BOOLEAN :
               IF started
               THEN mode' = "service" /\ pc' = "svc_register" /\ UNCHANGED exitCode
               ELSE mode' = "default" /\ pc' = "exited" /\ exitCode' = 0
  /\ UNCHANGED <<envVars, svcVars, httpVars, bootVars, log, scCalls>>

\* install_service: sc create, and sc start only after create succeeded.
install_service ==
  /\ pc = "install_service"
  /\ \E exe_ok \in BOOLEAN, create \in CmdOutcomes, start \in CmdOutcomes :
       IF ~exe_ok
       THEN pc' = "panicked" /\ exitCode' = 101 /\ UNCHANGED scCalls
       ELSE /\ scCalls' = IF create = "ok"
                          THEN << <<"sc create", create>>, <<"sc start", start>> >>
                          ELSE << <<"sc create", create>> >>
            /\ pc' = "exited" /\ exitCode' = 0
  /\ UNCHANGED <<envVars, svcVars, httpVars, bootVars, mode, log>>

\* Mutant of uninstall_service: sc delete is issued only after sc stop
\* succeeded.
uninstall_service_stop_checked ==
  /\ pc = "uninstall_service"
  /\ \E stop \in CmdOutcomes, delete \in CmdOutcomes :
       scCalls' = IF stop = "ok"
                  THEN << <<"sc stop", stop>>, <<"sc delete", delete>> >>
                  ELSE << <<"sc stop", stop>> >>
  /\ pc' = "exited" /\ exitCode' = 0
  /\ UNCHANGED <<envVars, svcVars, httpVars, bootVars, mode, log>>

\* uninstall_service: sc stop, its result dropped, then sc delete.
uninstall_service ==
  /\ pc = "uninstall_service"
  /\ \E stop \in CmdOutcomes, delete \in CmdOutcomes :
       scCalls' = << <<"sc stop", stop>>, <<"sc delete", delete>> >>
  /\ pc' = "exited" /\ exitCode' = 0
  /\ UNCHANGED <<envVars, svcVars, httpVars, bootVars, mode, log>>

\* ------------------------------------------------------------ run_service
\* run_service ends with Err before the serve loop: service_main logs it and
\* returns, the receiver is dropped with run_service's frame, the process
\* stays in the dispatcher.
service_error(what) ==
  /\ pc' = "svc_idle"
  /\ rxAlive' = FALSE
  /\ chan' = 0
  /\ log' = log_to_file(log, Msg("service error: ", <<what>>))

\* mpsc::channel() and service_control_handler::register
register ==
  /\ pc = "svc_register"
  /\ \E ok \in BOOLEAN :
       IF ok
       THEN /\ handler' = "registered" /\ rxAlive' = TRUE
            /\ pc' = "svc_report_running"
            /\ UNCHANGED <<chan, log>>
       ELSE service_error("register") /\ UNCHANGED handler
  /\ UNCHANGED <<envVars, httpVars, bootVars, mode, exitCode, scCalls,
                 osReports, statusExit, lastControl, lastAck, stopServing, stopEarly>>

\* set_service_status(Running) with exit_code Win32(0) and the "service
\* start" line.  SetServiceStatus
\* fails on an invalid handle or invalid status data only; the handle was just
\* returned by register and the status is a constant, so the call succeeds.
report_running ==
  /\ pc = "svc_report_running"
  /\ osReports' = Append(osReports, "Running")
  /\ statusExit' = 0
  /\ log' = log_to_file(log, Msg("service start", <<>>))
  /\ pc' = "svc_runtime"
  /\ UNCHANGED <<envVars, httpVars, bootVars, mode, exitCode, scCalls,
                 chan, rxAlive, handler, lastControl, lastAck, stopServing, stopEarly>>

\* tokio::runtime::Runtime::new()?
create_runtime ==
  /\ pc = "svc_runtime"
  /\ \E ok \in BOOLEAN :
       IF ok
       THEN pc' = "check_root" /\ UNCHANGED <<rxAlive, chan, log>>
       ELSE service_error("runtime")
  /\ UNCHANGED <<envVars, httpVars, bootVars, mode, exitCode, scCalls,
                 osReports, statusExit, handler, lastControl, lastAck, stopServing, stopEarly>>

\* ------------------------------------------- check_and_setup_environment
\* Mutant of check_failed: the error is noted and startup goes on.
check_failed_ignored(reason) ==
  /\ bootResult' = reason
  /\ pc' = IF mode = "service" THEN "svc_bind" ELSE "con_runtime"
  /\ UNCHANGED <<log, rxAlive, chan, exitCode>>

\* Mutant of check_failed: run_service returns the error to service_main
\* without another report.
check_failed_returns_err(reason) ==
  /\ bootResult' = reason
  /\ IF mode = "service"
     THEN /\ log' = log_to_file(log, Msg("environment setup error: ", <<reason>>))
          /\ pc' = "svc_idle"
          /\ rxAlive' = FALSE /\ chan' = 0
          /\ UNCHANGED exitCode
     ELSE /\ pc' = "exited" /\ exitCode' = 1
          /\ UNCHANGED <<log, rxAlive, chan>>

\* The check returned Err(reason).  In run_service the async block logs it and
\* returns, which ends block_on and drops the future that owns shutdown_rx; in
\* run_console_mode the process exits with code 1.
check_failed(reason) ==
  /\ bootResult' = reason
  /\ IF mode = "service"
     THEN /\ log' = log_to_file(log, Msg("environment setup error: ", <<reason>>))
          /\ pc' = "svc_after_block"
          /\ rxAlive' = FALSE /\ chan' = 0
          /\ UNCHANGED exitCode
     ELSE /\ pc' = "exited" /\ exitCode' = 1
          /\ UNCHANGED <<log, rxAlive, chan>>

\* The check returned Ok: run_service goes on to bind, run_console_mode to
\* create its runtime.
check_passed ==
  /\ bootResult' = "ok"
  /\ pc' = IF mode = "service" THEN "svc_bind" ELSE "con_runtime"
  /\ UNCHANGED <<log, rxAlive, chan, exitCode>>

\* let app_root = get_application_root()?
check_root ==
  /\ pc = "check_root"
  /\ IF get_application_root(world).ok
     THEN pc' = "check_node" /\ UNCHANGED <<bootResult, log, rxAlive, chan, exitCode>>
     ELSE check_failed("application root")
  /\ UNCHANGED <<envVars, httpVars, mode, scCalls, bootSpawns, fs,
                 osReports, statusExit, handler, lastControl, lastAck, stopServing, stopEarly>>

\* Mutant of check_node: the result of node --version is not looked at.
check_node_unchecked ==
  /\ pc = "check_node"
  /\ bootSpawns' = Append(bootSpawns, <<"node --version", fs.node>>)
  /\ pc' = "check_modules"
  /\ UNCHANGED <<bootResult, log, rxAlive, chan, exitCode>>
  /\ UNCHANGED <<envVars, httpVars, mode, scCalls, fs,
                 osReports, statusExit, handler, lastControl, lastAck, stopServing, stopEarly>>

\* node --version
check_node ==
  /\ pc = "check_node"
  /\ bootSpawns' = Append(bootSpawns, <<"node --version", fs.node>>)
  /\ IF fs.node = "ok"
     THEN pc' = "check_modules" /\ UNCHANGED <<bootResult, log, rxAlive, chan, exitCode>>
     ELSE check_failed("node not found")
  /\ UNCHANGED <<envVars, httpVars, mode, scCalls, fs,
                 osReports, statusExit, handler, lastControl, lastAck, stopServing, stopEarly>>

\* Mutant of check_modules: npm install runs whether node_modules exists or
\* not.
check_modules_always_installs ==
  /\ pc = "check_modules"
  /\ \E status \in CmdOutcomes :
       /\ bootSpawns' = Append(bootSpawns, <<"npm install", status>>)
       /\ IF status = "ok"
          THEN /\ fs' = [fs EXCEPT !.node_modules = TRUE]
               /\ pc' = "check_browsers"
               /\ UNCHANGED <<bootResult, log, rxAlive, chan, exitCode>>
          ELSE check_failed("npm install failed") /\ UNCHANGED fs
  /\ UNCHANGED <<envVars, httpVars, mode, scCalls,
                 osReports, statusExit, handler, lastControl, lastAck, stopServing, stopEarly>>

\* node_modules, and npm install when it is absent.  An install that exits 0
\* leaves node_modules behind.
check_modules ==
  /\ pc = "check_modules"
  /\ IF fs.node_modules
     THEN /\ pc' = "check_browsers"
          /\ UNCHANGED <<bootResult, bootSpawns, fs, log, rxAlive, chan, exitCode>>
     ELSE \E status \in CmdOutcomes :
            /\ bootSpawns' = Append(bootSpawns, <<"npm install", status>>)
            /\ IF status = "ok"
               THEN /\ fs' = [fs EXCEPT !.node_modules = TRUE]
                    /\ pc' = "check_browsers"
                    /\ UNCHANGED <<bootResult, log, rxAlive, chan, exitCode>>
               ELSE check_failed("npm install failed") /\ UNCHANGED fs
  /\ UNCHANGED <<envVars, httpVars, mode, scCalls,
                 osReports, statusExit, handler, lastControl, lastAck, stopServing, stopEarly>>

\* The browser cache directory, and npx playwright install chromium when it
\* is absent or empty.  An install that exits 0 fills the directory.
check_browsers ==
  /\ pc = "check_browsers"
  /\ IF fs.browsers = "full"
     THEN check_passed /\ UNCHANGED <<bootSpawns, fs>>
     ELSE \E status \in CmdOutcomes :
            /\ bootSpawns' = Append(bootSpawns, <<"npx playwright install chromium", status>>)
            /\ IF status = "ok"
               THEN fs' = [fs EXCEPT !.browsers = "full"] /\ check_passed
               ELSE check_failed("browser install failed") /\ UNCHANGED fs
  /\ UNCHANGED <<envVars, httpVars, mode, scCalls,
                 osReports, statusExit, handler, lastControl, lastAck, stopServing, stopEarly>>

\* ------------------------------------------------- run_service, continued
\* TcpListener::bind(addr).await.unwrap(), after the "server start" line
bind ==
  /\ pc = "svc_bind"
  /\ log' = log_to_file(log, Msg("server start: ", <<"127.0.0.1:3939">>))
  /\ \E ok \in BOOLEAN :
       IF ok
       THEN listener' = "accepting" /\ pc' = "svc_serving"
       ELSE pc' = "panicked" /\ UNCHANGED listener
  /\ UNCHANGED <<envVars, svcVars, bootVars, mode, exitCode, scCalls,
                 pending, nRequests, last, lastHealth>>

\* The shutdown watcher's poll that finds a notification: it logs, breaks,
\* select! returns and drops both futures, the listener and shutdown_rx with
\* them.  A poll of the empty channel sleeps and changes nothing.
shutdown_signal ==
  /\ pc = "svc_serving"
  /\ chan > 0
  /\ log' = log_to_file(log, Msg("shutdown signal received", <<>>))
  /\ pc' = "svc_after_block"
  /\ listener' = "closed"
  /\ rxAlive' = FALSE /\ chan' = 0
  /\ UNCHANGED <<envVars, bootVars, mode, exitCode, scCalls,
                 osReports, statusExit, handler, lastControl, lastAck, stopServing, stopEarly,
                 pending, nRequests, last, lastHealth>>

\* axum::serve(listener, app) completes on its own: the other arm of select!
serve_returns ==
  /\ pc = "svc_serving"
  /\ pc' = "svc_after_block"
  /\ listener' = "closed"
  /\ rxAlive' = FALSE /\ chan' = 0
  /\ UNCHANGED <<envVars, bootVars, mode, exitCode, scCalls, log,
                 osReports, statusExit, handler, lastControl, lastAck, stopServing, stopEarly,
                 pending, nRequests, last, lastHealth>>

\* Mutant of report_stopped: StopPending is reported after Stopped.
report_stopped_then_pending ==
  /\ pc = "svc_after_block"
  /\ osReports' = osReports \o <<"Stopped", "StopPending">>
  /\ statusExit' = 0
  /\ log' = log_to_file(log, Msg("service stop", <<>>))
  /\ pc' = "exited" /\ exitCode' = 0
  /\ pending' = "none"
  /\ UNCHANGED <<envVars, bootVars, mode, scCalls,
                 chan, rxAlive, handler, lastControl, lastAck, stopServing, stopEarly,
                 listener, nRequests, last, lastHealth>>

\* Mutant of report_stopped: StopPending is reported before Stopped.
report_stopped_via_pending ==
  /\ pc = "svc_after_block"
  /\ osReports' = osReports \o <<"StopPending", "Stopped">>
  /\ statusExit' = 0
  /\ log' = log_to_file(log, Msg("service stop", <<>>))
  /\ pc' = "exited" /\ exitCode' = 0
  /\ pending' = "none"
  /\ UNCHANGED <<envVars, bootVars, mode, scCalls,
                 chan, rxAlive, handler, lastControl, lastAck, stopServing, stopEarly,
                 listener, nRequests, last, lastHealth>>

\* set_service_status(Stopped) with exit_code Win32(0), the "service stop"
\* line, Ok(()): the runtime is dropped with run_service's frame and a task
\* not yet run with it.
report_stopped ==
  /\ pc = "svc_after_block"
  /\ osReports' = Append(osReports, "Stopped")
  /\ statusExit' = 0
  /\ log' = log_to_file(log, Msg("service stop", <<>>))
  /\ pc' = "exited" /\ exitCode' = 0
  /\ pending' = "none"
  /\ UNCHANGED <<envVars, bootVars, mode, scCalls,
                 chan, rxAlive, handler, lastControl, lastAck, stopServing, stopEarly,
                 listener, nRequests, last, lastHealth>>

\* -------------------------------------------------------- control handler
\* Controls the OS can deliver: Stop (while the last reported status accepts
\* it), Interrogate, and a code the handler does not know.
Controls == {"Stop", "Interrogate", "Other"}

\* The OS delivers Stop only while the service's last report was Running with
\* ServiceControlAccept::STOP.
StopAccepted == osReports # <<>> /\ osReports[Len(osReports)] = "Running"

\* run_service between the Running report and select!: the runtime is being
\* created, the check runs, the listener is being bound.
BeforeServing ==
  {"svc_runtime", "check_root", "check_node", "check_modules", "check_browsers",
   "svc_bind"}

\* Mutant of event_handler: a control it does not know posts a notification
\* too.
event_handler_other_stops ==
  /\ handler = "registered"
  /\ pc \notin Ended
  /\ \E control_event \in Controls :
       \/ /\ control_event = "Stop"
          /\ StopAccepted
          /\ chan < MaxStops
          /\ lastControl' = "Stop"
          /\ IF rxAlive
             THEN /\ chan' = chan + 1
                  /\ lastAck' = "NoError"
                  /\ UNCHANGED handler
             ELSE /\ handler' = "panicking"
                  /\ UNCHANGED <<chan, lastAck>>
          /\ stopServing' = (stopServing \/ pc = "svc_serving")
          /\ stopEarly' = (stopEarly \/ pc \in BeforeServing)
       \/ /\ control_event = "Interrogate"
          /\ lastControl' = "Interrogate"
          /\ lastAck' = "NoError"
          /\ UNCHANGED <<chan, handler, stopServing, stopEarly>>
       \/ /\ control_event = "Other"
          /\ chan < MaxStops
          /\ lastControl' = "Other"
          /\ lastAck' = "NotImplemented"
          /\ chan' = IF rxAlive THEN chan + 1 ELSE chan
          /\ UNCHANGED <<handler, stopServing, stopEarly>>
  /\ UNCHANGED <<envVars, httpVars, bootVars, mode, pc, exitCode, scCalls, log,
                 osReports, statusExit, rxAlive>>

\* event_handler, on the dispatcher's thread.  shutdown_tx.send(()) is Err
\* once shutdown_rx was dropped, and the unwrap then panics.
event_handler ==
  /\ handler = "registered"
  /\ pc \notin Ended
  /\ \E control_event \in Controls :
       \/ /\ control_event = "Stop"
          /\ StopAccepted
          /\ chan < MaxStops
          /\ lastControl' = "Stop"
          /\ IF rxAlive
             THEN /\ chan' = chan + 1
                  /\ lastAck' = "NoError"
                  /\ UNCHANGED handler
             ELSE /\ handler' = "panicking"
                  /\ UNCHANGED <<chan, lastAck>>
          /\ stopServing' = (stopServing \/ pc = "svc_serving")
          /\ stopEarly' = (stopEarly \/ pc \in BeforeServing)
       \/ /\ control_event = "Interrogate"
          /\ lastControl' = "Interrogate"
          /\ lastAck' = "NoError"
          /\ UNCHANGED <<chan, handler, stopServing, stopEarly>>
       \/ /\ control_event = "Other"
          /\ lastControl' = "Other"
          /\ lastAck' = "NotImplemented"
          /\ UNCHANGED <<chan, handler, stopServing, stopEarly>>
  /\ UNCHANGED <<envVars, httpVars, bootVars, mode, pc, exitCode, scCalls, log,
                 osReports, statusExit, rxAlive>>

\* The panic leaves the handler, an extern "system" callback: the process
\* is aborted.
handler_abort ==
  /\ handler = "panicking"
  /\ pc \notin Ended
  /\ pc' = "aborted"
  /\ UNCHANGED <<envVars, svcVars, httpVars, bootVars, mode, exitCode, scCalls, log>>

\* ------------------------------------------------------- run_console_mode
\* Runtime::new().unwrap()
console_runtime ==
  /\ pc = "con_runtime"
  /\ \E ok \in BOOLEAN :
       IF ok THEN pc' = "con_bind" /\ UNCHANGED exitCode
       ELSE pc' = "panicked" /\ exitCode' = 101
  /\ UNCHANGED <<envVars, svcVars, httpVars, bootVars, mode, scCalls, log>>

\* TcpListener::bind(addr).await.unwrap()
console_bind ==
  /\ pc = "con_bind"
  /\ \E ok \in BOOLEAN :
       IF ok
       THEN listener' = "accepting" /\ pc' = "con_serving" /\ UNCHANGED exitCode
       ELSE pc' = "panicked" /\ exitCode' = 101 /\ UNCHANGED listener
  /\ UNCHANGED <<envVars, svcVars, bootVars, mode, scCalls, log,
                 pending, nRequests, last, lastHealth>>

\* axum::serve(listener, app).await.unwrap() comes back, or Ctrl+C ends the
\* process.
console_serve_ends ==
  /\ pc = "con_serving"
  /\ \/ pc' = "exited" /\ exitCode' = 0
     \/ pc' = "panicked" /\ exitCode' = 101
     \/ pc' = "killed" /\ UNCHANGED exitCode
  /\ listener' = "closed"
  /\ pending' = "none"
  /\ UNCHANGED <<envVars, svcVars, bootVars, mode, scCalls, log,
                 nRequests, last, lastHealth>>

\* ----------------------------------------------------------- HTTP surface
\* The accept loop runs while axum::serve is polled.
Serving == pc \in {"svc_serving", "con_serving"}

\* Connection tasks run while the runtime lives: to the end of run_service,
\* or of the console process.
RuntimeAlive == pc \in {"svc_serving", "svc_after_block", "con_serving"}

Routes == {"health", "download"}

\* A client's request reaches the accept loop and becomes a task.
accept ==
  /\ Serving /\ listener = "accepting"
  /\ pending = "none"
  /\ nRequests < MaxRequests
  /\ \E route \in Routes : pending' = route
  /\ nRequests' = nRequests + 1
  /\ UNCHANGED <<envVars, svcVars, bootVars, mode, pc, exitCode, scCalls, log,
                 listener, last, lastHealth>>

\* A client asks for /health once startup is over (the check has returned)
\* and nothing listens on 127.0.0.1:3939.
connection_refused ==
  /\ bootResult # "none"
  /\ listener # "accepting"
  /\ lastHealth # Refused
  /\ lastHealth' = Refused
  /\ UNCHANGED <<envVars, svcVars, bootVars, mode, pc, exitCode, scCalls, log,
                 listener, pending, nRequests, last>>

\* Mutant of serve_health: the answer reflects the last download.
serve_health_readiness ==
  /\ RuntimeAlive
  /\ pending = "health"
  /\ pending' = "none"
  /\ lastHealth' = IF last.out.resp.code = 500
                   THEN [code |-> 503, body |-> [status |-> "error"]]
                   ELSE health_check
  /\ UNCHANGED <<envVars, svcVars, bootVars, mode, pc, exitCode, scCalls, log,
                 listener, nRequests, last>>

\* GET /health
serve_health ==
  /\ RuntimeAlive
  /\ pending = "health"
  /\ pending' = "none"
  /\ lastHealth' = health_check
  /\ UNCHANGED <<envVars, svcVars, bootVars, mode, pc, exitCode, scCalls, log,
                 listener, nRequests, last>>

\* Requests and children the state machine serves; download_invoice itself
\* is checked over all of Payloads and ChildOutcomes in SpecDownload.
ServedPayloads ==
  {[github_username |-> None, github_password |-> None],
   [github_username |-> Some(<<"u">>), github_password |-> Some(<<>>)]}
ServedChildren ==
  {c \in ChildOutcomes : c.stdout = <<>> /\ c.stderr = (IF c.kind = "exit" /\ c.code = 1 THEN <<"x">> ELSE <<>>)}

\* Mutant of serve_download: an error answer takes the serve loop down.
serve_download_crashing ==
  /\ RuntimeAlive
  /\ pending = "download"
  /\ pending' = "none"
  /\ \E payload \in ServedPayloads, child \in ServedChildren :
       LET out == download_invoice(payload, world, child)
       IN /\ last' = [payload |-> payload,
                      child |-> IF out.spawned THEN child ELSE NoChild,
                      out |-> out]
          /\ log' = log \o out.logs
          /\ IF out.resp.code = 200
             THEN UNCHANGED <<pc, listener>>
             ELSE pc' = "panicked" /\ listener' = "closed"
  /\ UNCHANGED <<envVars, svcVars, bootVars, mode, exitCode, scCalls,
                 nRequests, lastHealth>>

\* POST /api/download
serve_download ==
  /\ RuntimeAlive
  /\ pending = "download"
  /\ pending' = "none"
  /\ \E payload \in ServedPayloads, child \in ServedChildren :
       LET out == download_invoice(payload, world, child)
       IN /\ last' = [payload |-> payload,
                      child |-> IF out.spawned THEN child ELSE NoChild,
                      out |-> out]
          /\ log' = log \o out.logs
  /\ UNCHANGED <<envVars, svcVars, bootVars, mode, pc, exitCode, scCalls,
                 listener, nRequests, lastHealth>>

Next ==
  \/ main \/ install_service \/ uninstall_service
  \/ register \/ report_running \/ create_runtime
  \/ check_root \/ check_node \/ check_modules \/ check_browsers
  \/ bind \/ shutdown_signal \/ serve_returns \/ report_stopped
  \/ event_handler \/ handler_abort
  \/ console_runtime \/ console_bind \/ console_serve_ends
  \/ accept \/ connection_refused \/ serve_health \/ serve_download

Spec == Init /\ [][Next]_vars

\* ----------------------------------------------- download_invoice alone
\* One call of download_invoice for every request, world and child.
InitDownload ==
  /\ world \in Worlds
  /\ fs \in {[node |-> "ok", node_modules |-> TRUE, browsers |-> "full"]}
  /\ run = 1 /\ prevBoot = "none"
  /\ ProcessStart
  /\ \E payload \in Payloads, child \in ChildOutcomes :
       last = [payload |-> payload, child |-> child, out |-> NoOut]

call_download ==
  /\ pc = "main" /\ last.out = NoOut /\ last.child # NoChild
  /\ last' = [last EXCEPT !.out = download_invoice(last.payload, world, last.child)]
  /\ log' = log \o last'.out.logs
  /\ pc' = "exited"
  /\ UNCHANGED <<envVars, svcVars, bootVars, mode, exitCode, scCalls,
                 listener, pending, nRequests, lastHealth>>

SpecDownload == InitDownload /\ [][call_download]_vars

\* ------------------------------------ check_and_setup_environment alone
\* The check called again and again, as by one foreground start after the
\* other, over a file system that keeps what the installers left.
InitBoot ==
  /\ world \in Worlds
  /\ fs \in FileSystems
  /\ run = 1 /\ prevBoot = "none"
  /\ mode = "console" /\ pc = "check_root" /\ exitCode = -1
  /\ osReports = <<>> /\ chan = 0 /\ rxAlive = FALSE
  /\ handler = "unregistered" /\ lastControl = "none" /\ lastAck = "none"
  /\ listener = "unbound" /\ pending = "none" /\ nRequests = 0
  /\ bootResult = "none" /\ bootSpawns = <<>>
  /\ log = <<>> /\ last = NoCall /\ lastHealth = NoAnswer /\ scCalls = <<>>
  /\ stopServing = FALSE /\ stopEarly = FALSE /\ statusExit = -1

check_again ==
  /\ bootResult # "none"
  /\ run < MaxRuns
  /\ run' = run + 1
  /\ prevBoot' = bootResult
  /\ bootResult' = "none" /\ bootSpawns' = <<>>
  /\ pc' = "check_root" /\ exitCode' = -1
  /\ UNCHANGED <<world, fs, svcVars, httpVars, mode, scCalls, log>>

NextBoot ==
  \/ check_root \/ check_node \/ check_modules \/ check_browsers
  \/ check_again

SpecBoot == InitBoot /\ [][NextBoot]_vars

\* ----------------------------------------------------------------- claims
Reported(state) == \E i \in 1..Len(osReports) : osReports[i] = state

\* C1: in service mode and in foreground mode alike, the listener is bound,
\* a connection is accepted and a download is processed only in a process run
\* whose check_and_setup_environment has returned Ok.
C1_BootstrapGatesServing ==
  (listener # "unbound" \/ pending # "none" \/ last # NoCall)
    => bootResult = "ok"

C1_DownloadServed ==
  /\ mode = "service"
  /\ bootResult = "ok"
  /\ last.out.spawnCalls = 1

\* C2: a service run that received a Stop control while its serve loop was
\* running does not end before it has reported Stopped to the OS.
C2_StopWhileServingEndsStopped ==
  (stopServing /\ pc \in Ended)
    => (osReports # <<>> /\ osReports[Len(osReports)] = "Stopped")

\* C3: a service run that reported Running has reported Stopped by the time
\* run_service has ended, whatever way it ended.
C3_RunningEndsStopped ==
  (mode = "service" /\ pc \in Ended \cup {"svc_idle"} /\ Reported("Running"))
    => Reported("Stopped")

\* the order of ServiceState the OS expects
ServiceStateRank ==
  [Starting |-> 1, Running |-> 2, StopPending |-> 3, Stopped |-> 4]

\* C4: the states reported to the OS in one run never go back in the order
\* Starting < Running < StopPending < Stopped, and nothing follows Stopped.
C4_ReportsMonotonic ==
  \A i, j \in 1..Len(osReports) :
    i < j => /\ ServiceStateRank[osReports[i]] <= ServiceStateRank[osReports[j]]
             /\ osReports[i] # "Stopped"

C4_RunningThenStopped == osReports = <<"Running", "Stopped">>

C6_HealthAfterFailedBootstrap ==
  bootResult \notin {"none", "ok"} => lastHealth # Refused

\* C6 as amended: GET /health is served only by a process whose check returned
\* Ok (after a failed check nothing listens); whenever it is served the answer
\* is 200 {"status":"ok"}, whatever earlier downloads returned, and serving
\* it changes nothing but the answer.
C6_HealthLivenessOnly ==
  /\ [](lastHealth = health_check => bootResult = "ok")
  /\ [](bootResult \notin {"none", "ok"} => listener = "unbound")
  /\ [][(pending = "health" /\ pending' = "none" /\ pc' = pc)
          => /\ lastHealth' = [code |-> 200, body |-> [status |-> "ok"]]
             /\ UNCHANGED <<world, fs, run, mode, pc, exitCode, osReports, statusExit, chan,
                            rxAlive, handler, lastControl, lastAck, listener,
                            nRequests, bootResult, bootSpawns, prevBoot, log,
                            last, scCalls, stopServing, stopEarly>>]_vars

C6_HealthAfterFailedDownload ==
  /\ lastHealth = health_check
  /\ last.out.resp.code = 500

\* t is s without its leading and trailing blanks
IsTrimOf(t, s) ==
  \E i \in 1..(Len(s) + 1), j \in 0..Len(s) :
    /\ i <= j + 1
    /\ t = [k \in 1..(j - i + 1) |-> s[i + k - 1]]
    /\ \A k \in 1..Len(s) : (k < i \/ k > j) => s[k] = "sp"
    /\ (i <= j) => (s[i] # "sp" /\ s[j] # "sp")

\* C7: download_invoice answers either 200/success/the fixed message or
\* 500/error/a diagnostic; 200 exactly when the root resolved, the script
\* existed, the child was spawned and exited 0, whatever it wrote; after a
\* non-zero exit the message carries the child's stderr, trimmed.
C7_DownloadResponse ==
  last.out # NoOut =>
    LET resp == last.out.resp
        child == last.child
        ran == /\ get_application_root(world).ok
               /\ world.script
               /\ child.kind = "exit"
        text == [k \in 1..Len(child.stderr) |->
                   IF child.stderr[k] = "bad" THEN "U+FFFD" ELSE child.stderr[k]]
    IN /\ \/ resp = [code |-> 200, status |-> "success", message |-> SuccessMessage]
          \/ /\ resp.code = 500 /\ resp.status = "error"
             /\ resp.message.text \notin {"", SuccessMessage.text}
       /\ (resp.code = 200) <=> (ran /\ child.code = 0)
       /\ (ran /\ child.code # 0) => IsTrimOf(resp.message.arg, text)

C7_FailedChildTrimmed ==
  /\ last.out.resp.code = 500
  /\ last.out.spawned
  /\ last.child.code = 1
  /\ last.child.stdout = <<"x">>
  /\ last.child.stderr = <<"sp", "x">>
  /\ last.out.resp.message.arg = <<"x">>

\* C8: GITHUB_USERNAME (GITHUB_PASSWORD) is set on the child command exactly
\* when the request's field is present and non-empty, each on its own, with
\* the field's value; an empty value is never set.
C8_CredentialEnv ==
  last.out.spawnCalls = 1 =>
    LET env == last.out.cmd.env
        IsSet(name) == \E pair \in env : pair[1] = name
        Given(field) == field.some /\ field.val # <<>>
    IN /\ IsSet("GITHUB_USERNAME") <=> Given(last.payload.github_username)
       /\ IsSet("GITHUB_PASSWORD") <=> Given(last.payload.github_password)
       /\ \A pair \in env :
            /\ pair[1] = "GITHUB_USERNAME" => pair[2] = last.payload.github_username.val
            /\ pair[1] = "GITHUB_PASSWORD" => pair[2] = last.payload.github_password.val
            /\ pair[2] # <<>>

C8_UserSetPasswordEmpty ==
  /\ last.out.spawnCalls = 1
  /\ last.payload.github_username = Some(<<"u">>)
  /\ last.payload.github_password = Some(<<>>)
  /\ Cardinality(last.out.cmd.env) = 2

\* C9: when <root>/dist/download-supabase-invoice.js does not exist the answer
\* is 500/error, its message names that path, and cmd.output() is not called.
C9_MissingScript ==
  (last.out # NoOut /\ get_application_root(world).ok /\ ~world.script)
    => /\ last.out.resp.code = 500 /\ last.out.resp.status = "error"
       /\ last.out.resp.message.arg =
            get_application_root(world).path \o <<"dist", "download-supabase-invoice.js">>
       /\ last.out.spawnCalls = 0 /\ ~last.out.spawned /\ last.out.cmd = NoCmd

C9_MissingScriptAnswered ==
  /\ last.out # NoOut
  /\ get_application_root(world).path = <<"app">>
  /\ ~world.script
  /\ last.child.kind = "exit" /\ last.child.code = 0

\* C10 as stated: a run of the check right after a run that returned Ok makes
\* no Command call at all and returns Ok.
C10_SecondRunSpawnsNothing ==
  (prevBoot = "ok" /\ bootResult # "none")
    => (bootSpawns = <<>> /\ bootResult = "ok")

\* C10 as amended: a run of the check right after a run that returned Ok
\* spawns the interpreter's version query and nothing else (no installer), and
\* returns Ok.
C10_SecondRunOnlyQueriesNode ==
  prevBoot = "ok"
    => /\ bootResult \in {"none", "ok"}
       /\ bootSpawns \in {<<>>, << <<"node --version", "ok">> >>}
       /\ bootResult = "ok" => bootSpawns = << <<"node --version", "ok">> >>
       /\ fs = [node |-> "ok", node_modules |-> TRUE, browsers |-> "full"]

C10_SecondRunOk ==
  /\ run = 2
  /\ prevBoot = "ok"
  /\ bootResult = "ok"

\* C11: the PLAYWRIGHT_BROWSERS_PATH download_invoice sets on the child is the
\* directory check_and_setup_environment checks and installs the browser into,
\* whether APPDATA and HOME are set or not.
C11_SameBrowsersPath ==
  last.out.spawnCalls = 1 =>
    \E pair \in last.out.cmd.env :
      /\ pair[1] = "PLAYWRIGHT_BROWSERS_PATH"
      /\ pair[2] = check_browsers_path(world)

\* C12: a failed check is fatal with a non-zero exit.  In foreground mode the
\* process exits with a non-zero code; in service mode the run ends with a
\* status reported to the OS whose exit code is not zero; in both the listener
\* is never bound and no request is served.
C12_BootstrapFailureFatal ==
  bootResult \notin {"none", "ok"} =>
    /\ listener = "unbound" /\ pending = "none"
    /\ last = NoCall /\ lastHealth # health_check
    /\ mode = "console" => (pc = "exited" /\ exitCode > 0)
    /\ (mode = "service" /\ pc = "exited")
         => (Reported("Stopped") /\ statusExit # 0)

\* C13: a step that runs download_invoice, whatever its outcome (root not
\* resolved, script missing, spawn failure, non-zero exit, success), answers
\* with a DownloadResult and leaves the serve loop, the listener and the
\* shutdown channel as they were; a server that has answered downloads and is
\* still in its serve loop still accepts.
C13_DownloadNeverStopsServing ==
  /\ []((last # NoCall /\ Serving) => listener = "accepting")
  /\ [][(/\ pending = "download" /\ pending' = "none"
         /\ last'.out # NoOut /\ log' = log \o last'.out.logs)
        => /\ \/ last'.out.resp.code = 200 /\ last'.out.resp.status = "success"
              \/ /\ last'.out.resp.code = 500 /\ last'.out.resp.status = "error"
                 /\ last'.out.resp.message.text # ""
           /\ pc' = pc /\ listener' = listener /\ nRequests' = nRequests
           /\ chan' = chan /\ rxAlive' = rxAlive /\ handler' = handler
           /\ osReports' = osReports /\ exitCode' = exitCode]_vars

C13_ServingAfterFailure ==
  /\ Serving /\ listener = "accepting"
  /\ last.out.resp.code = 500 /\ last.out.spawned
  /\ nRequests = 2 /\ pending = "download"

\* C14: install and uninstall never run the check, register a handler or bind
\* the listener; sc start is issued only as the second command, after an sc
\* create that succeeded; uninstall issues sc stop and then sc delete, whatever
\* sc stop returned; no other mode issues an sc command.
C14_InstallUninstallDispatch ==
  /\ mode \in {"install", "uninstall"} =>
       /\ pc \in {"install_service", "uninstall_service", "exited", "panicked"}
       /\ bootResult = "none" /\ bootSpawns = <<>>
       /\ listener = "unbound" /\ pending = "none"
       /\ last = NoCall /\ lastHealth = NoAnswer
       /\ handler = "unregistered" /\ osReports = <<>>
  /\ mode \notin {"install", "uninstall"} => scCalls = <<>>
  /\ \A i \in 1..Len(scCalls) :
       scCalls[i][1] = "sc start"
         => (mode = "install" /\ i = 2 /\ scCalls[1] = <<"sc create", "ok">>)
  /\ (mode = "install" /\ pc = "exited") => scCalls[1][1] = "sc create"
  /\ (mode = "uninstall" /\ pc = "exited") =>
       /\ Len(scCalls) = 2
       /\ scCalls[1][1] = "sc stop"
       /\ scCalls[2][1] = "sc delete"

C14_DeleteAfterFailedStop ==
  /\ mode = "uninstall"
  /\ scCalls = << <<"sc stop", "fail">>, <<"sc delete", "ok">> >>

\* C15: a call of download_invoice appends exactly two lines to the log: the
\* "request received" line first, then one outcome line, the success line
\* exactly when the answer is 200, one of the four error lines otherwise; for
\* a script that exists and exits 0 the lines are "request received" and
\* "success".
C15_TwoLogEvents ==
  last.out # NoOut =>
    /\ log = last.out.logs
    /\ Len(log) = 2
    /\ log[1] = [text |-> "download request received", arg |-> <<>>]
    /\ log[2].text \in {"application root error: ", "script not found: ",
                        "Node.js run error: ", "download failed: ",
                        "download success"}
    /\ (log[2].text = "download success") <=> (last.out.resp.code = 200)
    /\ (/\ get_application_root(world).ok /\ world.script
        /\ last.child.kind = "exit" /\ last.child.code = 0)
         => log[2] = [text |-> "download success", arg |-> <<>>]

C15_ReceivedThenSuccess ==
  /\ last.out.resp.code = 200
  /\ log = << [text |-> "download request received", arg |-> <<>>],
              [text |-> "download success", arg |-> <<>>] >>

\* C16 as stated: a service run whose check failed never reports Stopped.
C16_FailedCheckNoStopped ==
  (mode = "service" /\ bootResult \notin {"none", "ok"}) => ~Reported("Stopped")

\* C16 as amended: a service run whose check failed has logged the error and
\* left only the async block; run_service then reports Stopped, with exit code
\* 0, logs the stop and returns Ok.  It never returns Err and never returns
\* without that report; the run ends without it only when a panic in the
\* control handler aborts the process first.
C16_FailedCheckReportsStopped ==
  (mode = "service" /\ bootResult \notin {"none", "ok"}) =>
    /\ \E i \in 1..Len(log) :
         log[i] = [text |-> "environment setup error: ", arg |-> <<bootResult>>]
    /\ listener = "unbound"
    /\ pc \in {"svc_after_block", "exited", "aborted"}
    /\ pc = "svc_after_block" => osReports = <<"Running">>
    /\ pc = "exited" =>
         /\ osReports = <<"Running", "Stopped">> /\ statusExit = 0
         /\ exitCode = 0
         /\ log[Len(log)] = [text |-> "service stop", arg |-> <<>>]
    /\ pc = "aborted" => (handler = "panicking" /\ osReports = <<"Running">>)

C16_StoppedAfterFailedCheck ==
  /\ mode = "service"
  /\ bootResult = "node not found"
  /\ pc = "exited"
  /\ osReports = <<"Running", "Stopped">>

\* C17: the Command calls of one check_and_setup_environment call come in the
\* order node --version, npm install, npx playwright install chromium.  npm
\* install runs only as the second call, after a node --version that
\* succeeded, and only while node_modules is absent.  The browser install runs
\* only after a node --version that succeeded and, if npm install ran, an npm
\* install that succeeded, and only while the browser directory is absent or
\* empty.  The error names the call that failed, that call is the last one
\* made, and Ok is returned only when every call made succeeded.
C17_OrderedShortCircuit ==
  /\ [](\A i \in 1..Len(bootSpawns) :
          /\ bootSpawns[i][1] = "node --version" <=> i = 1
          /\ bootSpawns[i][1] = "npm install" => i = 2
          /\ bootSpawns[i][1] = "npx playwright install chromium" => i \in {2, 3}
          /\ i < Len(bootSpawns) => bootSpawns[i][2] = "ok")
  /\ [](/\ bootResult = "application root" => bootSpawns = <<>>
        /\ bootResult = "node not found"
             => (Len(bootSpawns) = 1 /\ bootSpawns[1][2] # "ok")
        /\ bootResult = "npm install failed"
             => /\ Len(bootSpawns) = 2
                /\ bootSpawns[2][1] = "npm install" /\ bootSpawns[2][2] # "ok"
        /\ bootResult = "browser install failed"
             => /\ bootSpawns[Len(bootSpawns)][1] = "npx playwright install chromium"
                /\ bootSpawns[Len(bootSpawns)][2] # "ok"
        /\ bootResult = "ok"
             => /\ bootSpawns # <<>>
                /\ \A i \in 1..Len(bootSpawns) : bootSpawns[i][2] = "ok"
        /\ bootResult \notin {"none", "ok"} => pc \notin {"check_root", "check_node",
                                                        "check_modules", "check_browsers"})
  /\ [][Len(bootSpawns') = Len(bootSpawns) + 1 =>
          LET call == bootSpawns'[Len(bootSpawns')][1]
          IN /\ bootResult = "none"
             /\ call = "npm install" => ~fs.node_modules
             /\ call = "npx playwright install chromium"
                  => (fs.node_modules /\ fs.browsers \in {"absent", "empty"})]_vars

C17_BrowserNotTriedAfterNpmFailed ==
  /\ bootResult = "npm install failed"
  /\ fs.browsers = "absent"
  /\ bootSpawns = << <<"node --version", "ok">>, <<"npm install", "fail">> >>

\* C18: every Stop control delivered to the registered handler, at any point
\* up to the Stopped report, is acknowledged with NoError after a notification
\* was posted; the handler never panics on a dropped receiver.
C18_StopAlwaysPosted ==
  /\ handler # "panicking"
  /\ lastControl = "Stop" => lastAck = "NoError"

\* C19: the handler answers Interrogate with NoError and a control other than
\* Stop and Interrogate with NotImplemented; such a step posts nothing on the
\* channel and leaves the reported states, the handler, the service thread,
\* the listener and the accepted connection as they were.
C19_InterrogateAndOtherNoEffect ==
  /\ [](/\ lastControl = "Interrogate" => lastAck = "NoError"
        /\ lastControl = "Other" => lastAck = "NotImplemented")
  /\ [][(/\ lastControl' \in {"Interrogate", "Other"}
         /\ (lastControl' # lastControl \/ lastAck' # lastAck))
        => /\ chan' = chan /\ rxAlive' = rxAlive /\ handler' = handler
           /\ osReports' = osReports /\ statusExit' = statusExit
           /\ pc' = pc /\ listener' = listener /\ pending' = pending
           /\ log' = log /\ exitCode' = exitCode]_vars

C19_OtherWhileServing ==
  /\ pc = "svc_serving" /\ listener = "accepting"
  /\ lastControl = "Other" /\ lastAck = "NotImplemented"
  /\ chan = 0 /\ osReports = <<"Running">>
  /\ pending = "download"

\* C20: a Stop control delivered after the Running report and before the serve
\* loop runs is not lost: it is still queued when the shutdown watcher starts
\* to poll, and the run does not end before Stopped was reported; however many
\* Stop controls were delivered, the shutdown is seen and Stopped is reported
\* once.
C20_EarlyStopEndsStopped ==
  /\ (stopEarly /\ pc = "svc_serving") => chan > 0
  /\ (stopEarly /\ pc \in Ended \cup {"svc_idle"})
       => (osReports # <<>> /\ osReports[Len(osReports)] = "Stopped")
  /\ Cardinality({i \in 1..Len(osReports) : osReports[i] = "Stopped"}) <= 1
  /\ Cardinality({i \in 1..Len(log) :
                    log[i] = [text |-> "shutdown signal received", arg |-> <<>>]}) <= 1

====
